---- MODULE Spec2Model ----
(***************************************************************************)
(* A model of bevy_ggrs' rollback stage (src/src/ggrs_stage.rs) and of its *)
(* reflect based component snapshots                                       *)
(* (src/src/snapshot/component_reflect.rs).                                *)
(*                                                                         *)
(* Time is counted in units of 1/(10 * update_frequency) seconds, so that  *)
(* the step threshold 1/update_frequency is 10 units and the threshold     *)
(* with run_slow set (1.1 times as much) is 11 units.  Durations are exact *)
(* in the model; the rounding of f64 and of nanosecond Durations is not    *)
(* modelled.                                                               *)
(***************************************************************************)
EXTENDS Integers, Sequences, FiniteSets, TLC

\* ------------------------------------------------------------------ bounds
\* Frames run from 0 to MaxFrame.
MaxFrame == 2
\* The longest command list one advance_frame call returns.
MaxReq == 2
\* The largest value of the scalar state-kind.
MaxVal == 1
\* The longest value of the list state-kind.
MaxLen == 1
\* The number of rollback references.
MaxRb == 2
\* The number of edits of the simulation the snapshot specification follows.
MaxEdits == 3
\* The largest update rate the clock specification draws.
MaxRate == 12
\* The largest wall-clock gap of one poll of the clock specification, in
\* step thresholds.
MaxGap == 3
\* The number of polls the clock and the solo specification follow.
MaxPolls == 3

VARIABLES
    session,       \* World: the SessionType resource and the session resource
    reset,         \* World: the GGRSStageResetSession marker is present
    inputs,        \* World: the Vec<PlayerInput> resource is present
    world,         \* World: the entities and their components
    snapshots,     \* GGRSStage::snapshots
    frame,         \* GGRSStage::frame
    accumulator,   \* GGRSStage::accumulator
    run_slow,      \* GGRSStage::run_slow
    update_frequency, \* GGRSStage::update_frequency
    fps_delta,     \* run: the local fps_delta of the poll in progress
    pc,            \* the position of the stage in run / handle_requests
    requests,      \* handle_requests: the number of requests not yet taken
    cmd,           \* handle_requests: the request taken last
    simRuns,       \* advance_frame: the runs of the schedule so far
    before,        \* history: the frame counter when cmd was taken
    batch,         \* history: the command list as advance_frame returned it
    done,          \* history: the requests of the list taken so far
    saveLog,       \* history: the saves since the last reset, latest per frame
    gap,           \* history: the wall-clock delta the last poll observed
    steps,         \* history: the steps emitted since the last poll began
    edits,         \* history: the number of edits of the simulation so far
    advLog,        \* history: the simulation state before each Advance
    polls,         \* history: the number of polls so far
    acc0,          \* history: the accumulator before the first poll
    calls          \* history: the calls on the session and on the input
                   \* system made by the last poll or step

\* The World, as far as the stage touches it.
worldVars == << session, reset, inputs, world >>

\* The fields of the stage, and where it stands.
stageVars ==
    << snapshots, frame, accumulator, run_slow, update_frequency, fps_delta,
       pc, requests, cmd, simRuns, before >>

\* The history variables; they record, and decide nothing.
history == << batch, done, saveLog, gap, steps, edits, advLog, polls, acc0, calls >>

vars == << worldVars, stageVars, history >>

\* --------------------------------------------------------- the simulation
\* Option<T>: None and Some(v).
Nothing == << >>

Some(v) == << v >>

IsSome(o) == o # << >>

Unwrap(o) == o[1]

\* The registered state-kinds: one whose values are plain values (Reflect
\* value types) and one whose values are lists (Vec<T>).
Kinds == {"KVal", "KList"}

\* The rollback references (the Rollback component's values).
RB == 1 .. MaxRb

\* Vec<T> values: the lists of at most MaxLen elements.
RECURSIVE ListsOfLen(_)
ListsOfLen(n) ==
    IF n = 0 THEN {<< >>}
    ELSE {Append(l, v) : l \in ListsOfLen(n - 1), v \in 0 .. MaxVal}

Lists == UNION {ListsOfLen(n) : n \in 0 .. MaxLen}

Values(k) == IF k = "KVal" THEN 0 .. MaxVal ELSE Lists

\* An entity: for each state-kind, the component it holds or none.
NoComponents == [k \in Kinds |-> Nothing]

\* World::new: no entity.  tracked[r] is the live entity that carries
\* Rollback r, untracked is an entity without a Rollback component.
EmptyWorld == [tracked |-> [r \in RB |-> Nothing], untracked |-> Nothing]

\* Reflect::apply(self, value): a value type is replaced; a list has value's
\* elements applied to its own elements index by index, value's excess
\* elements appended and its own excess elements kept (bevy_reflect's
\* list_apply).
list_apply(self, value) ==
    IF Len(self) > Len(value)
    THEN value \o SubSeq(self, Len(value) + 1, Len(self))
    ELSE value

apply(k, self, value) ==
    IF k = "KVal" THEN value ELSE list_apply(self, value)

\* C::from_world(world): the default-constructed component.
from_world(k) == IF k = "KVal" THEN 0 ELSE << >>

\* GgrsComponentSnapshot::default and an empty structural record.
DefaultSnapshot ==
    [ents |-> {}, comps |-> [k \in Kinds |-> [r \in RB |-> Nothing]]]

\* ComponentSnapshotReflectPlugin::save for state-kind k: the cloned value
\* of every entity that has both a Rollback and a C.
save(k, w) ==
    [r \in RB |->
        IF IsSome(w.tracked[r]) THEN Unwrap(w.tracked[r])[k] ELSE Nothing]

\* The structural record of a capture: the tracked entities that exist.
save_entities(w) == {r \in RB : IsSome(w.tracked[r])}

\* WorldSnapshot::from_world: the structural record and one component
\* snapshot per registered state-kind.
WorldSnapshot_from_world(w) ==
    [ents |-> save_entities(w), comps |-> [k \in Kinds |-> save(k, w)]]

\* The structural restore: a reference of the snapshot that is not alive is
\* re-created (without components), a live tracked entity that the snapshot
\* lacks is destroyed.
load_entities(w, snapshot) ==
    [w EXCEPT !.tracked =
        [r \in RB |->
            IF r \in snapshot.ents
            THEN (IF IsSome(w.tracked[r]) THEN w.tracked[r]
                  ELSE Some(NoComponents))
            ELSE Nothing]]

\* The match of ComponentSnapshotReflectPlugin::load for one entity.
load_component(k, component, snap) ==
    IF IsSome(component) /\ IsSome(snap)
    THEN Some(apply(k, Unwrap(component), Unwrap(snap)))
    ELSE IF IsSome(component)
    THEN Nothing
    ELSE IF IsSome(snap)
    THEN Some(apply(k, from_world(k), Unwrap(snap)))
    ELSE Nothing

\* ComponentSnapshotReflectPlugin::load for state-kind k, its commands
\* applied: every entity with a Rollback is matched against the snapshot.
load(k, w, snapshot) ==
    [w EXCEPT !.tracked =
        [r \in RB |->
            IF IsSome(w.tracked[r])
            THEN Some([Unwrap(w.tracked[r]) EXCEPT
                     ![k] = load_component(k, @, snapshot.comps[k][r])])
            ELSE Nothing]]

\* WorldSnapshot::write_to_world: the structural restore, then the restore
\* of each state-kind.
WorldSnapshot_write_to_world(snapshot, w) ==
    load("KList", load("KVal", load_entities(w, snapshot), snapshot), snapshot)

\* The tracked part of a simulation state: which tracked entities exist and,
\* per state-kind, the value each holds or none.
TrackedState(w) == w.tracked


\* What the application can do to the simulation in one edit: give a live
\* tracked entity a value of a state-kind or take it away, create or destroy
\* a tracked entity, and create, change or destroy the untracked entity.
SetComponent(w, r, k, o) ==
    [w EXCEPT !.tracked[r] = Some([Unwrap(@) EXCEPT ![k] = o])]

Edits(w) ==
    LET live == {r \in RB : IsSome(w.tracked[r])} IN
    UNION {{SetComponent(w, r, k, Some(v)) : v \in Values(k)} :
              r \in live, k \in Kinds}
    \cup {SetComponent(w, r, k, Nothing) : r \in live, k \in Kinds}
    \cup {[w EXCEPT !.tracked[r] = Some(NoComponents)] : r \in RB \ live}
    \cup {[w EXCEPT !.tracked[r] = Nothing] : r \in live}
    \cup {[w EXCEPT !.untracked = Some(v)] : v \in Values("KVal")}
    \cup {[w EXCEPT !.untracked = Nothing]}

\* ------------------------------------------------------------ the session
\* The session resources of the World: the SessionType, and of the session
\* itself what the stage reads, current_state() and max_prediction().
NoSession == [type |-> "None", state |-> "Synchronizing", max_prediction |-> 1]

SessionTypes == {"SyncTest", "P2P", "Spectator"}

\* The prediction windows a session is built with.
Windows == {1, 2}

NewSession(t, mp) ==
    [type |-> t,
     state |-> IF t = "SyncTest" THEN "Running" ELSE "Synchronizing",
     max_prediction |-> mp]

\* poll_remote_clients: a session that is synchronizing may have finished.
poll_remote_clients(s) ==
    IF s.type \in {"P2P", "Spectator"}
    THEN {s, [s EXCEPT !.state = "Running"]}
    ELSE {s}

\* frames_ahead() of a peer-to-peer session, as far as the stage reads it.
FramesAhead == {0, 1}

\* GGRSRequest: SaveGameState{frame}, LoadGameState{cell} (frame is the
\* frame of the state the cell holds) and AdvanceFrame.
SaveGameState(f) == [type |-> "Save", frame |-> f]

LoadGameState(f) == [type |-> "Load", frame |-> f]

AdvanceFrame == [type |-> "Advance", frame |-> 0]

NoRequest == [type |-> "None", frame |-> 0]

Frames == 0 .. MaxFrame

\* The requests a session of type t issues: a spectator only advances.
Commands(t) ==
    IF t = "Spectator" THEN {AdvanceFrame}
    ELSE {SaveGameState(f) : f \in Frames} \cup
         {LoadGameState(f) : f \in Frames} \cup {AdvanceFrame}

\* advance_frame(): Ok(requests) with n requests, Err(PredictionThreshold)
\* or another error; NotCalled when the stage did not call it.
Ok(n) == [result |-> "Ok", n |-> n]

NotReady == [result |-> "PredictionThreshold", n |-> 0]

Failed == [result |-> "Error", n |-> 0]

NotCalled == [result |-> "NotCalled", n |-> 0]

AdvanceResults(t) ==
    {Ok(n) : n \in 1 .. MaxReq} \cup {Failed} \cup
    (IF t = "SyncTest" THEN {} ELSE {NotReady})

\* -------------------------------------------------------------- the stage
\* 1. / update_frequency, in time units.
UnbiasedDelta == 10

\* fps_delta of run: 1/update_frequency, times 1.1 when run_slow is set.
FpsDeltaShrunk(slow) ==
    IF slow THEN (UnbiasedDelta * 9) \div 10 ELSE UnbiasedDelta

FpsDelta(slow) == IF slow THEN (UnbiasedDelta * 11) \div 10 ELSE UnbiasedDelta

\* One wall-clock second, in time units.
Second(rate) == UnbiasedDelta * rate

\* The sizing of run_synctest and run_p2p: an empty snapshot vector gets
\* max_prediction default snapshots.
RECURSIVE Defaults(_)
Defaults(n) == IF n = 0 THEN << >> ELSE Append(Defaults(n - 1), DefaultSnapshot)

ResizedToOne(snaps, max_pred) == IF snaps = << >> THEN Defaults(1) ELSE snaps

Resized(snaps, max_pred) == IF snaps = << >> THEN Defaults(max_pred) ELSE snaps

\* save_world, load_world: the slot of a frame.
save_pos_next(f, len) == (f + 1) % len

save_pos(f, len) == f % len

load_pos(f, len) == f % len

\* GGRSStage::new, in a World without a session.
StageInit ==
    /\ session = NoSession
    /\ reset = FALSE
    /\ inputs = FALSE
    /\ snapshots = << >>
    /\ frame = 0
    /\ accumulator = 0
    /\ run_slow = FALSE
    /\ update_frequency = 60
    /\ fps_delta = UnbiasedDelta
    /\ pc = "idle"
    /\ requests = 0
    /\ cmd = NoRequest
    /\ simRuns = 0
    /\ before = 0

HistoryInit ==
    /\ batch = << >>
    /\ done = << >>
    /\ saveLog = << >>
    /\ gap = 0
    /\ steps = 0
    /\ edits = 0
    /\ advLog = << >>
    /\ polls = 0
    /\ acc0 = 0
    /\ calls = << >>

\* The start of run up to the step loop: the pending reset, the accumulation
\* of the time since the last run (none when reset_session has just set
\* last_update) and the polling of the remote clients.
run_poll_keeping_history(delta, polled) ==
    /\ pc = "idle"
    /\ reset' = FALSE
    /\ frame' = IF reset THEN 0 ELSE frame
    /\ run_slow' = IF reset THEN FALSE ELSE run_slow
    /\ snapshots' = snapshots
    /\ fps_delta' = FpsDelta(run_slow')
    /\ accumulator' = IF reset THEN 0 ELSE accumulator + delta
    /\ session' = polled
    /\ pc' = "loop"
    /\ UNCHANGED << inputs, world >>
    /\ UNCHANGED << update_frequency, requests, cmd, simRuns, before >>

run_poll_keeping_time(delta, polled) ==
    /\ pc = "idle"
    /\ reset' = FALSE
    /\ frame' = IF reset THEN 0 ELSE frame
    /\ run_slow' = IF reset THEN FALSE ELSE run_slow
    /\ snapshots' = IF reset THEN << >> ELSE snapshots
    /\ fps_delta' = FpsDelta(run_slow')
    /\ accumulator' = accumulator + delta
    /\ session' = polled
    /\ pc' = "loop"
    /\ UNCHANGED << inputs, world >>
    /\ UNCHANGED << update_frequency, requests, cmd, simRuns, before >>

run_poll(delta, polled) ==
    /\ pc = "idle"
    /\ reset' = FALSE
    /\ frame' = IF reset THEN 0 ELSE frame
    /\ run_slow' = IF reset THEN FALSE ELSE run_slow
    /\ snapshots' = IF reset THEN << >> ELSE snapshots
    /\ fps_delta' = FpsDelta(run_slow')
    /\ accumulator' = IF reset THEN 0 ELSE accumulator + delta
    /\ session' = polled
    /\ pc' = "loop"
    /\ UNCHANGED << inputs, world >>
    /\ UNCHANGED << update_frequency, requests, cmd, simRuns, before >>

\* The condition of the step loop.
StepDueAtThreshold == accumulator >= fps_delta

StepDue == accumulator > fps_delta

\* The step loop has run out of accumulated time: run returns.
run_return_without_session ==
    /\ pc = "loop"
    /\ ~StepDue \/ session.type = "None"
    /\ pc' = "idle"
    /\ UNCHANGED worldVars
    /\ UNCHANGED << snapshots, frame, accumulator, run_slow, update_frequency,
                    fps_delta, requests, cmd, simRuns, before >>

run_return ==
    /\ pc = "loop"
    /\ ~StepDue
    /\ pc' = "idle"
    /\ UNCHANGED worldVars
    /\ UNCHANGED << snapshots, frame, accumulator, run_slow, update_frequency,
                    fps_delta, requests, cmd, simRuns, before >>

\* One pass of the step loop up to the call of handle_requests: the
\* accumulator is decreased and the update of the session type is run.
\* snaps is the snapshot vector and slow the run_slow flag it leaves, got
\* what advance_frame returned.
step_keeping_time(snaps, slow, got) ==
    /\ pc = "loop"
    /\ StepDue
    /\ accumulator' = accumulator
    /\ snapshots' = snaps
    /\ run_slow' = slow
    /\ requests' = got.n
    /\ pc' = IF got.result = "Ok" THEN "exec" ELSE "loop"
    /\ UNCHANGED worldVars
    /\ UNCHANGED << frame, update_frequency, fps_delta, cmd, simRuns, before >>

step_handling_errors(snaps, slow, got) ==
    /\ pc = "loop"
    /\ StepDue
    /\ accumulator' = accumulator - fps_delta
    /\ snapshots' = snaps
    /\ run_slow' = slow
    /\ requests' = got.n
    /\ pc' = IF got.result \in {"Ok", "Error"} THEN "exec" ELSE "loop"
    /\ UNCHANGED worldVars
    /\ UNCHANGED << frame, update_frequency, fps_delta, cmd, simRuns, before >>

step(snaps, slow, got) ==
    /\ pc = "loop"
    /\ StepDue
    /\ accumulator' = accumulator - fps_delta
    /\ snapshots' = snaps
    /\ run_slow' = slow
    /\ requests' = got.n
    /\ pc' = IF got.result = "Ok" THEN "exec" ELSE "loop"
    /\ UNCHANGED worldVars
    /\ UNCHANGED << frame, update_frequency, fps_delta, cmd, simRuns, before >>

\* None => {}: no session has been started yet.
run_none ==
    /\ session.type = "None"
    /\ step(snapshots, run_slow, NotCalled)

run_synctest(got) ==
    /\ session.type = "SyncTest"
    /\ step(Resized(snapshots, session.max_prediction), run_slow, got)

run_spectator(got) ==
    /\ session.type = "Spectator"
    /\ got.result = "NotCalled" <=> session.state # "Running"
    /\ step(snapshots, run_slow, got)

run_p2p_unchecked(got, ahead) ==
    /\ session.type = "P2P"
    /\ step(Resized(snapshots, session.max_prediction), ahead > 0, got)

run_p2p_keeping_bias(got, ahead) ==
    /\ session.type = "P2P"
    /\ got.result = "NotCalled" <=> session.state # "Running"
    /\ step(Resized(snapshots, session.max_prediction), run_slow, got)

run_p2p(got, ahead) ==
    /\ session.type = "P2P"
    /\ got.result = "NotCalled" <=> session.state # "Running"
    /\ step(Resized(snapshots, session.max_prediction), ahead > 0, got)

\* handle_requests: the loop takes the next request of the list.
handle_requests_next(request) ==
    /\ pc = "exec"
    /\ requests > 0
    /\ cmd' = request
    /\ before' = frame
    /\ requests' = requests - 1
    /\ pc' = "cmd"
    /\ UNCHANGED worldVars
    /\ UNCHANGED << snapshots, frame, accumulator, run_slow, update_frequency,
                    fps_delta, simRuns >>

\* handle_requests: every request has been handled.
handle_requests_done ==
    /\ pc = "exec"
    /\ requests = 0
    /\ cmd' = NoRequest
    /\ before' = 0
    /\ pc' = "loop"
    /\ UNCHANGED worldVars
    /\ UNCHANGED << snapshots, frame, accumulator, run_slow, update_frequency,
                    fps_delta, requests, simRuns >>

\* save_world: the assertion, the capture and the store; a failed assertion
\* and a remainder by zero panic.
save_world_store_first ==
    /\ pc = "cmd"
    /\ cmd.type = "Save"
    /\ IF Len(snapshots) = 0
       THEN /\ pc' = "panic"
            /\ UNCHANGED snapshots
       ELSE /\ snapshots' =
                [snapshots EXCEPT ![save_pos(cmd.frame, Len(snapshots)) + 1] =
                    WorldSnapshot_from_world(world)]
            /\ pc' = IF frame # cmd.frame THEN "panic" ELSE "exec"
    /\ UNCHANGED worldVars
    /\ UNCHANGED << frame, accumulator, run_slow, update_frequency, fps_delta,
                    requests, cmd, simRuns, before >>

save_world_counting ==
    /\ pc = "cmd"
    /\ cmd.type = "Save"
    /\ IF frame # cmd.frame \/ Len(snapshots) = 0
       THEN /\ pc' = "panic"
            /\ UNCHANGED << snapshots, frame >>
       ELSE /\ snapshots' =
                [snapshots EXCEPT ![save_pos(cmd.frame, Len(snapshots)) + 1] =
                    WorldSnapshot_from_world(world)]
            /\ frame' = frame + 1
            /\ pc' = "exec"
    /\ UNCHANGED worldVars
    /\ UNCHANGED << accumulator, run_slow, update_frequency, fps_delta,
                    requests, cmd, simRuns, before >>

save_world ==
    /\ pc = "cmd"
    /\ cmd.type = "Save"
    /\ IF frame # cmd.frame \/ Len(snapshots) = 0
       THEN /\ pc' = "panic"
            /\ UNCHANGED snapshots
       ELSE /\ snapshots' =
                [snapshots EXCEPT ![save_pos(cmd.frame, Len(snapshots)) + 1] =
                    WorldSnapshot_from_world(world)]
            /\ pc' = "exec"
    /\ UNCHANGED worldVars
    /\ UNCHANGED << frame, accumulator, run_slow, update_frequency, fps_delta,
                    requests, cmd, simRuns, before >>

\* load_world: the frame counter is set, then the snapshot of the frame's
\* slot is written to the world; a remainder by zero panics.
load_world_forward_only ==
    /\ pc = "cmd"
    /\ cmd.type = "Load"
    /\ frame' = IF cmd.frame < frame THEN frame ELSE cmd.frame
    /\ IF Len(snapshots) = 0
       THEN /\ pc' = "panic"
            /\ UNCHANGED world
       ELSE LET snapshot_to_load ==
                    snapshots[load_pos(cmd.frame, Len(snapshots)) + 1] IN
            /\ world' = WorldSnapshot_write_to_world(snapshot_to_load, world)
            /\ pc' = "exec"
    /\ UNCHANGED << session, reset, inputs >>
    /\ UNCHANGED << snapshots, accumulator, run_slow, update_frequency,
                    fps_delta, requests, cmd, simRuns, before >>

load_world ==
    /\ pc = "cmd"
    /\ cmd.type = "Load"
    /\ frame' = cmd.frame
    /\ IF Len(snapshots) = 0
       THEN /\ pc' = "panic"
            /\ UNCHANGED world
       ELSE LET snapshot_to_load ==
                    snapshots[load_pos(cmd.frame, Len(snapshots)) + 1] IN
            /\ world' = WorldSnapshot_write_to_world(snapshot_to_load, world)
            /\ pc' = "exec"
    /\ UNCHANGED << session, reset, inputs >>
    /\ UNCHANGED << snapshots, accumulator, run_slow, update_frequency,
                    fps_delta, requests, cmd, simRuns, before >>

\* advance_frame: insert_resource(inputs).
advance_frame_insert ==
    /\ pc = "cmd"
    /\ cmd.type = "Advance"
    /\ inputs' = TRUE
    /\ simRuns' = 0
    /\ pc' = "advance"
    /\ UNCHANGED << session, reset, world >>
    /\ UNCHANGED << snapshots, frame, accumulator, run_slow, update_frequency,
                    fps_delta, requests, cmd, before >>

\* advance_frame: schedule.run_once(world), the rollback systems changing
\* the simulation to next.
advance_frame_run(next) ==
    /\ pc = "advance"
    /\ world' = next
    /\ simRuns' = simRuns + 1
    /\ pc' = "advanced"
    /\ UNCHANGED << session, reset, inputs >>
    /\ UNCHANGED << snapshots, frame, accumulator, run_slow, update_frequency,
                    fps_delta, requests, cmd, before >>

\* advance_frame: remove_resource and self.frame += 1.
advance_frame_keeps_inputs ==
    /\ pc = "advanced"
    /\ frame' = frame + 1
    /\ pc' = "exec"
    /\ UNCHANGED worldVars
    /\ UNCHANGED << snapshots, accumulator, run_slow, update_frequency,
                    fps_delta, requests, cmd, simRuns, before >>

advance_frame_remove ==
    /\ pc = "advanced"
    /\ inputs' = FALSE
    /\ frame' = frame + 1
    /\ pc' = "exec"
    /\ UNCHANGED << session, reset, world >>
    /\ UNCHANGED << snapshots, accumulator, run_slow, update_frequency,
                    fps_delta, requests, cmd, simRuns, before >>

\* -------------------------------------------------------- the environment
\* The application starts a session: the session and its SessionType become
\* resources of the World.
StartSession(t, mp) ==
    /\ pc = "idle"
    /\ session.type = "None"
    /\ session' = NewSession(t, mp)
    /\ UNCHANGED << reset, inputs, world >>
    /\ UNCHANGED stageVars

\* The application stops the session: the resources are removed and the
\* GGRSStageResetSession marker is inserted.
StopSession ==
    /\ pc = "idle"
    /\ session.type # "None"
    /\ session' = NoSession
    /\ reset' = TRUE
    /\ UNCHANGED << inputs, world >>
    /\ UNCHANGED stageVars

\* The world the application of the stage specifications starts with: one
\* tracked entity that holds a value.
StageWorld ==
    [EmptyWorld EXCEPT
        !.tracked[1] = Some([NoComponents EXCEPT !["KVal"] = Some(0)])]

\* The rollback schedule of that application: its system writes the value
\* of the tracked entity.
Simulate(w) ==
    IF IsSome(w.tracked[1])
    THEN {[w EXCEPT !.tracked[1] =
              Some([Unwrap(w.tracked[1]) EXCEPT !["KVal"] = Some(v)])] :
            v \in {0, 1}}
    ELSE {w}

\* The wall-clock time between two runs of the stage.
Deltas == {0, 11, 20}

\* A request the stage can handle within the bounds of the model.
InBounds(request) == request.type = "Advance" => frame < MaxFrame

\* ------------------------------------------------- the stage specification
\* The stage under an application that starts and stops sessions of every
\* type, with a session that may answer advance_frame with any command list.
Init == StageInit /\ HistoryInit /\ world = StageWorld

Start ==
    /\ \E t \in SessionTypes, mp \in Windows : StartSession(t, mp)
    /\ UNCHANGED history

Stop == StopSession /\ UNCHANGED history

Poll ==
    /\ \E delta \in Deltas, polled \in poll_remote_clients(session) :
          run_poll(delta, polled)
    /\ UNCHANGED history

Return == run_return /\ UNCHANGED history

StepNone == run_none /\ UNCHANGED history

StepSynctest ==
    /\ \E got \in AdvanceResults("SyncTest") : run_synctest(got)
    /\ UNCHANGED history

StepSpectator ==
    /\ \E got \in AdvanceResults("Spectator") \cup {NotCalled} :
          run_spectator(got)
    /\ UNCHANGED history

StepP2p ==
    /\ \E got \in AdvanceResults("P2P") \cup {NotCalled}, ahead \in FramesAhead :
          run_p2p(got, ahead)
    /\ UNCHANGED history

TakeRequest ==
    /\ \E request \in Commands(session.type) :
          InBounds(request) /\ handle_requests_next(request)
    /\ UNCHANGED history

RequestsDone == handle_requests_done /\ UNCHANGED history

Save == save_world /\ UNCHANGED history

Load == load_world /\ UNCHANGED history

AdvanceInsert == advance_frame_insert /\ UNCHANGED history

AdvanceRun ==
    /\ \E next \in Simulate(world) : advance_frame_run(next)
    /\ UNCHANGED history

AdvanceRemove == advance_frame_remove /\ UNCHANGED history

Next ==
    \/ Start
    \/ Stop
    \/ Poll
    \/ Return
    \/ StepNone
    \/ StepSynctest
    \/ StepSpectator
    \/ StepP2p
    \/ TakeRequest
    \/ RequestsDone
    \/ Save
    \/ Load
    \/ AdvanceInsert
    \/ AdvanceRun
    \/ AdvanceRemove

Spec == Init /\ [][Next]_vars

\* ----------------------------------------------- the history specification
\* The stage with a running synctest session, the saves since the start
\* logged: saveLog holds, in the order of the saves, the latest save of each
\* frame.
RECURSIVE Without(_, _)
Without(log, f) ==
    IF log = << >> THEN << >>
    ELSE IF Head(log).frame = f THEN Without(Tail(log), f)
    ELSE << Head(log) >> \o Without(Tail(log), f)

Logged(log, f, snapshot) ==
    Append(Without(log, f), [frame |-> f, snapshot |-> snapshot])

\* The snapshot of the most recent save of log whose frame is congruent to
\* f modulo k; the default snapshot when there is none.
RECURSIVE LatestCongruent(_, _, _)
LatestCongruent(log, f, k) ==
    IF log = << >> THEN DefaultSnapshot
    ELSE IF log[Len(log)].frame % k = f % k THEN log[Len(log)].snapshot
    ELSE LatestCongruent(SubSeq(log, 1, Len(log) - 1), f, k)

InitHistory ==
    /\ \E mp \in Windows : session = NewSession("SyncTest", mp)
    /\ reset = FALSE
    /\ inputs = FALSE
    /\ world = StageWorld
    /\ snapshots = << >>
    /\ frame = 0
    /\ accumulator = 0
    /\ run_slow = FALSE
    /\ update_frequency = 60
    /\ fps_delta = UnbiasedDelta
    /\ pc = "idle"
    /\ requests = 0
    /\ cmd = NoRequest
    /\ simRuns = 0
    /\ before = 0
    /\ HistoryInit

\* Every poll comes one step threshold after the last.
HPoll == run_poll(UnbiasedDelta, session) /\ UNCHANGED history

HReturn == run_return /\ UNCHANGED history

\* Every advance_frame call returns one request.
HStep == run_synctest(Ok(1)) /\ UNCHANGED history

HTake ==
    /\ \E request \in Commands("SyncTest") :
          InBounds(request) /\ handle_requests_next(request)
    /\ UNCHANGED history

HDone == handle_requests_done /\ UNCHANGED history

HSave ==
    /\ save_world
    /\ saveLog' = IF pc' = "panic" THEN saveLog
                  ELSE Logged(saveLog, cmd.frame,
                              WorldSnapshot_from_world(world))
    /\ UNCHANGED << batch, done, gap, steps, edits, advLog, polls, acc0, calls >>

HLoad == load_world /\ UNCHANGED history

HAdvanceInsert == advance_frame_insert /\ UNCHANGED history

HAdvanceRun ==
    /\ \E next \in Simulate(world) : advance_frame_run(next)
    /\ UNCHANGED history

HAdvanceRemove == advance_frame_remove /\ UNCHANGED history

NextHistory ==
    \/ HPoll
    \/ HReturn
    \/ HStep
    \/ HTake
    \/ HDone
    \/ HSave
    \/ HLoad
    \/ HAdvanceInsert
    \/ HAdvanceRun
    \/ HAdvanceRemove

SpecHistory == InitHistory /\ [][NextHistory]_vars

\* ------------------------------------------------- the batch specification
\* The stage with a running synctest session, the command list of each
\* advance_frame call kept: batch is the list as returned, done the requests
\* of it that handle_requests has taken, steps the steps of the poll so far.
\* The lists are made of a save and a load of the first frame and of
\* advances.
BatchCommands == {SaveGameState(0), LoadGameState(0), AdvanceFrame}

RECURSIVE CommandListsOfLen(_)
CommandListsOfLen(n) ==
    IF n = 0 THEN {<< >>}
    ELSE {Append(l, c) : l \in CommandListsOfLen(n - 1), c \in BatchCommands}

CommandLists == UNION {CommandListsOfLen(n) : n \in 1 .. MaxReq}

\* for request in requests: the request the loop takes when left requests
\* of list are still to be taken.
NextRequestReversed(list, left) == list[left]

NextRequest(list, left) == list[Len(list) - left + 1]

InitBatch ==
    /\ session = NewSession("SyncTest", 1)
    /\ reset = FALSE
    /\ inputs = FALSE
    /\ world = StageWorld
    /\ snapshots = << >>
    /\ frame = 0
    /\ accumulator = 0
    /\ run_slow = FALSE
    /\ update_frequency = 60
    /\ fps_delta = UnbiasedDelta
    /\ pc = "idle"
    /\ requests = 0
    /\ cmd = NoRequest
    /\ simRuns = 0
    /\ before = 0
    /\ HistoryInit

\* Every poll comes two step thresholds after the last.
BPoll ==
    /\ run_poll(2 * UnbiasedDelta, session)
    /\ steps' = 0
    /\ UNCHANGED << batch, done, saveLog, gap, edits, advLog, polls, acc0, calls >>

BReturn == run_return /\ UNCHANGED history

BStep ==
    /\ \E list \in CommandLists :
          /\ run_synctest(Ok(Len(list)))
          /\ batch' = list
    /\ done' = << >>
    /\ steps' = steps + 1
    /\ UNCHANGED << saveLog, gap, edits, advLog, polls, acc0, calls >>

BTake ==
    /\ requests > 0
    /\ InBounds(NextRequest(batch, requests))
    /\ handle_requests_next(NextRequest(batch, requests))
    /\ done' = Append(done, cmd')
    /\ UNCHANGED << batch, saveLog, gap, steps, edits, advLog, polls, acc0, calls >>

BDone == handle_requests_done /\ UNCHANGED history

BSave == save_world /\ UNCHANGED history

BLoad == load_world /\ UNCHANGED history

BAdvanceInsert == advance_frame_insert /\ UNCHANGED history

BAdvanceRun == advance_frame_run(world) /\ UNCHANGED history

BAdvanceRemove == advance_frame_remove /\ UNCHANGED history

NextBatch ==
    \/ BPoll
    \/ BReturn
    \/ BStep
    \/ BTake
    \/ BDone
    \/ BSave
    \/ BLoad
    \/ BAdvanceInsert
    \/ BAdvanceRun
    \/ BAdvanceRemove

SpecBatch == InitBatch /\ [][NextBatch]_vars

\* ------------------------------------------------- the clock specification
\* The clock of the stage alone: a running peer-to-peer session that skips
\* every frame (PredictionThreshold) and whose frames_ahead keeps run_slow
\* as it is.  gap is the wall-clock time polled so far, steps the passes of
\* the step loop so far, acc0 the accumulator the polling began with.
InitClock ==
    /\ session = [NewSession("P2P", 1) EXCEPT !.state = "Running"]
    /\ reset = FALSE
    /\ inputs = FALSE
    /\ world = StageWorld
    /\ snapshots = << >>
    /\ frame = 0
    /\ accumulator \in 0 .. UnbiasedDelta
    /\ run_slow \in BOOLEAN
    /\ update_frequency \in 1 .. MaxRate
    /\ fps_delta = FpsDelta(run_slow)
    /\ pc = "idle"
    /\ requests = 0
    /\ cmd = NoRequest
    /\ simRuns = 0
    /\ before = 0
    /\ batch = << >>
    /\ done = << >>
    /\ saveLog = << >>
    /\ gap = 0
    /\ steps = 0
    /\ edits = 0
    /\ advLog = << >>
    /\ polls = 0
    /\ acc0 = accumulator
    /\ calls = << >>

\* The wall-clock gaps of the clock specification: up to MaxGap step
\* thresholds, and one second.
ClockDeltas(rate) ==
    {n * UnbiasedDelta : n \in 0 .. MaxGap} \cup {Second(rate)}

CPoll ==
    /\ polls < MaxPolls
    /\ \E delta \in ClockDeltas(update_frequency) :
          /\ gap + delta <= Second(update_frequency)
          /\ run_poll(delta, session)
          /\ gap' = gap + delta
    /\ polls' = polls + 1
    /\ UNCHANGED << batch, done, saveLog, steps, edits, advLog, acc0, calls >>

CReturn == run_return /\ UNCHANGED history

CStep ==
    /\ run_p2p(NotReady, IF run_slow THEN 1 ELSE 0)
    /\ steps' = steps + 1
    /\ UNCHANGED << batch, done, saveLog, gap, edits, advLog, polls, acc0, calls >>

NextClock ==
    \/ CPoll
    \/ CReturn
    \/ CStep

SpecClock == InitClock /\ [][NextClock]_vars

\* The step loop of run as a function: the number of passes the loop makes
\* from accumulator acc with threshold delta.
RECURSIVE run_steps(_, _)
run_steps(acc, delta) ==
    IF acc > delta THEN 1 + run_steps(acc - delta, delta) ELSE 0

\* -------------------------------------------------- the solo specification
\* The scenario of a solo synctest session: update rate 60, a prediction
\* window of SoloWindow, polls one step threshold apart, and a session that
\* answers every advance_frame with a save of its current frame followed by
\* an advance.  The session's current frame is the number of frames it has
\* advanced.  advLog holds, per Advance, the frame counter, the simulation
\* before the update and whether that frame had been saved.
SoloWindow == 8

SoloRequest(left, current_frame) ==
    IF left = 2 THEN SaveGameState(current_frame) ELSE AdvanceFrame

InitSolo ==
    /\ session = NewSession("SyncTest", SoloWindow)
    /\ reset = FALSE
    /\ inputs = FALSE
    /\ world = StageWorld
    /\ snapshots = << >>
    /\ frame = 0
    /\ accumulator = 0
    /\ run_slow = FALSE
    /\ update_frequency = 60
    /\ fps_delta = UnbiasedDelta
    /\ pc = "idle"
    /\ requests = 0
    /\ cmd = NoRequest
    /\ simRuns = 0
    /\ before = 0
    /\ HistoryInit

SPoll ==
    /\ polls < MaxPolls
    /\ run_poll(UnbiasedDelta, session)
    /\ polls' = polls + 1
    /\ UNCHANGED << batch, done, saveLog, gap, steps, edits, advLog, acc0, calls >>

SReturn == run_return /\ UNCHANGED history

SStep == run_synctest(Ok(2)) /\ UNCHANGED history

STake ==
    /\ handle_requests_next(SoloRequest(requests, Len(advLog)))
    /\ UNCHANGED history

SDone == handle_requests_done /\ UNCHANGED history

SSave ==
    /\ save_world
    /\ saveLog' = IF pc' = "panic" THEN saveLog
                  ELSE Logged(saveLog, cmd.frame,
                              WorldSnapshot_from_world(world))
    /\ UNCHANGED << batch, done, gap, steps, edits, advLog, polls, acc0, calls >>

SAdvanceInsert == advance_frame_insert /\ UNCHANGED history

SAdvanceRun ==
    /\ \E next \in Edits(world) : advance_frame_run(next)
    /\ advLog' = Append(advLog,
                        [frame |-> frame, world |-> world,
                         saved |-> \E i \in DOMAIN saveLog :
                                       saveLog[i].frame = frame])
    /\ UNCHANGED << batch, done, saveLog, gap, steps, edits, polls, acc0, calls >>

SAdvanceRemove == advance_frame_remove /\ UNCHANGED history

NextSolo ==
    \/ SPoll
    \/ SReturn
    \/ SStep
    \/ STake
    \/ SDone
    \/ SSave
    \/ SAdvanceInsert
    \/ SAdvanceRun
    \/ SAdvanceRemove

SpecSolo == InitSolo /\ [][NextSolo]_vars

\* ---------------------------------------------- the snapshot specification
\* Capture and restore alone, on a history of one slot: the application
\* edits the simulation, the simulation is captured into the slot, the slot
\* is written back.  cmd is the operation made last, saveLog the capture the
\* slot holds together with the tracked state it was taken from.
InitSnap ==
    /\ session = NewSession("SyncTest", 1)
    /\ reset = FALSE
    /\ inputs = FALSE
    /\ world = EmptyWorld
    /\ snapshots = Defaults(1)
    /\ frame = 0
    /\ accumulator = 0
    /\ run_slow = FALSE
    /\ update_frequency = 60
    /\ fps_delta = UnbiasedDelta
    /\ pc = "exec"
    /\ requests = 0
    /\ cmd = NoRequest
    /\ simRuns = 0
    /\ before = 0
    /\ HistoryInit

SnapEdit ==
    /\ edits < MaxEdits
    /\ \E next \in Edits(world) : world' = next
    /\ edits' = edits + 1
    /\ cmd' = NoRequest
    /\ UNCHANGED << session, reset, inputs >>
    /\ UNCHANGED << snapshots, frame, accumulator, run_slow, update_frequency,
                    fps_delta, pc, requests, simRuns, before >>
    /\ UNCHANGED << batch, done, saveLog, gap, steps, advLog, polls, acc0, calls >>

SnapSave ==
    /\ snapshots' = << WorldSnapshot_from_world(world) >>
    /\ saveLog' = << [frame |-> frame,
                      snapshot |-> WorldSnapshot_from_world(world),
                      state |-> TrackedState(world)] >>
    /\ cmd' = SaveGameState(frame)
    /\ UNCHANGED worldVars
    /\ UNCHANGED << frame, accumulator, run_slow, update_frequency, fps_delta,
                    pc, requests, simRuns, before >>
    /\ UNCHANGED << batch, done, gap, steps, edits, advLog, polls, acc0, calls >>

SnapLoad ==
    /\ saveLog # << >>
    /\ world' = WorldSnapshot_write_to_world(snapshots[1], world)
    /\ cmd' = LoadGameState(frame)
    /\ UNCHANGED << session, reset, inputs >>
    /\ UNCHANGED << snapshots, frame, accumulator, run_slow, update_frequency,
                    fps_delta, pc, requests, simRuns, before >>
    /\ UNCHANGED history

\* ComponentSnapshotReflectPlugin::load alone: one state-kind is restored
\* from the slot into the simulation as it is.
SnapLoadKind ==
    /\ saveLog # << >>
    /\ \E k \in Kinds :
          /\ world' = load(k, world, snapshots[1])
          /\ cmd' = [type |-> k, frame |-> frame]
    /\ UNCHANGED << session, reset, inputs >>
    /\ UNCHANGED << snapshots, frame, accumulator, run_slow, update_frequency,
                    fps_delta, pc, requests, simRuns, before >>
    /\ UNCHANGED history

NextSnap ==
    \/ SnapEdit
    \/ SnapSave
    \/ SnapLoad
    \/ SnapLoadKind

SpecSnap == InitSnap /\ [][NextSnap]_vars

\* ----------------------------------------------- the session specification
\* The stage with a session of any type, the calls it makes on the session
\* and on the input system logged: calls holds the calls of the last step,
\* or of the poll before its first step.  A call is its name and its
\* argument or result; what advance_frame returned follows its call.
Call(op, arg) == [op |-> op, arg |-> arg]

\* The numbers of local players of a session.
Locals == {1, 2}

\* input_system.run(handle, world) for each of the n local handles.
RECURSIVE Sampled(_)
Sampled(n) ==
    IF n = 0 THEN << >> ELSE Append(Sampled(n - 1), Call("input", n - 1))

\* session.add_local_input(handle, input) for each of the n local handles.
RECURSIVE Registered(_)
Registered(n) ==
    IF n = 0 THEN << >>
    ELSE Append(Registered(n - 1), Call("add_local_input", n - 1))

\* session.advance_frame() and its result.
Advanced(got) == << Call("advance_frame", 0), Call(got.result, got.n) >>

\* run: the remote clients of a peer-to-peer and of a spectator session are
\* polled, whatever the state of the session and the accumulated time.
poll_calls_when_running(s) ==
    IF s.type \in {"P2P", "Spectator"} /\ s.state = "Running"
    THEN << Call("poll_remote_clients", 0) >>
    ELSE << >>

poll_calls(s) ==
    IF s.type \in {"P2P", "Spectator"}
    THEN << Call("poll_remote_clients", 0) >>
    ELSE << >>

\* run_synctest: the inputs of all players, their registration, the advance.
synctest_calls(players, got) ==
    Sampled(players) \o Registered(players) \o Advanced(got)

\* run_spectator: the advance, if the session is running.
spectator_calls(s, got) ==
    IF s.state = "Running" THEN Advanced(got) ELSE << >>

\* run_p2p: the inputs of the local players; if the session is running,
\* their registration and the advance; then frames_ahead.
p2p_calls(s, locals, got, ahead) ==
    Sampled(locals)
    \o (IF s.state = "Running" THEN Registered(locals) \o Advanced(got)
        ELSE << >>)
    \o << Call("frames_ahead", ahead) >>

InitSession ==
    /\ \E t \in SessionTypes, mp \in Windows : session = NewSession(t, mp)
    /\ reset = FALSE
    /\ inputs = FALSE
    /\ world = StageWorld
    /\ snapshots = << >>
    /\ frame = 0
    /\ accumulator = 0
    /\ run_slow = FALSE
    /\ update_frequency = 60
    /\ fps_delta = UnbiasedDelta
    /\ pc = "idle"
    /\ requests = 0
    /\ cmd = NoRequest
    /\ simRuns = 0
    /\ before = 0
    /\ HistoryInit

\* What advance_frame returns: a list of one request, or an error.
SessionResults(t) == {got \in AdvanceResults(t) : got.n <= 1}

\* The wall-clock time between two runs: one or two step thresholds.
SessionDeltas == {UnbiasedDelta, 2 * UnbiasedDelta}

XPoll ==
    /\ \E delta \in SessionDeltas, polled \in poll_remote_clients(session) :
          run_poll(delta, polled)
    /\ calls' = poll_calls(session)
    /\ UNCHANGED << batch, done, saveLog, gap, steps, edits, advLog, polls,
                    acc0 >>

XReturn == run_return /\ UNCHANGED history

XStepSynctest ==
    /\ \E got \in SessionResults("SyncTest"), players \in Locals :
          /\ run_synctest(got)
          /\ calls' = synctest_calls(players, got)
    /\ UNCHANGED << batch, done, saveLog, gap, steps, edits, advLog, polls,
                    acc0 >>

XStepSpectator ==
    /\ \E got \in SessionResults("Spectator") \cup {NotCalled} :
          /\ run_spectator(got)
          /\ calls' = spectator_calls(session, got)
    /\ UNCHANGED << batch, done, saveLog, gap, steps, edits, advLog, polls,
                    acc0 >>

XStepP2p ==
    /\ \E got \in SessionResults("P2P") \cup {NotCalled},
          ahead \in FramesAhead, locals \in Locals :
          /\ run_p2p(got, ahead)
          /\ calls' = p2p_calls(session, locals, got, ahead)
    /\ UNCHANGED << batch, done, saveLog, gap, steps, edits, advLog, polls,
                    acc0 >>

XTake ==
    /\ \E request \in Commands(session.type) :
          InBounds(request) /\ handle_requests_next(request)
    /\ UNCHANGED history

XDone == handle_requests_done /\ UNCHANGED history

XSave == save_world /\ UNCHANGED history

XLoad == load_world /\ UNCHANGED history

XAdvanceInsert == advance_frame_insert /\ UNCHANGED history

XAdvanceRun ==
    /\ \E next \in Simulate(world) : advance_frame_run(next)
    /\ UNCHANGED history

XAdvanceRemove == advance_frame_remove /\ UNCHANGED history

NextSession ==
    \/ XPoll
    \/ XReturn
    \/ XStepSynctest
    \/ XStepSpectator
    \/ XStepP2p
    \/ XTake
    \/ XDone
    \/ XSave
    \/ XLoad
    \/ XAdvanceInsert
    \/ XAdvanceRun
    \/ XAdvanceRemove

SpecSession == InitSession /\ [][NextSession]_vars

\* ------------------------------------------------------------- properties
\* C1: a restore of a captured snapshot yields the tracked state the capture
\* was taken from (the tracked entities and, per state-kind, the value each
\* holds or none), whatever was edited in between.
RoundTrip == cmd.type = "Load" => TrackedState(world) = saveLog[1].state

\* C2: a Load of frame F reads slot F mod K, which holds the snapshot of the
\* most recent Save whose frame is congruent to F modulo K, and writes that
\* snapshot to the world.
HistoryBounding ==
    [][(pc = "cmd" /\ cmd.type = "Load" /\ snapshots # << >>) =>
         LET K == Len(snapshots)
             latest == LatestCongruent(saveLog, cmd.frame, K) IN
         /\ snapshots[(cmd.frame % K) + 1] = latest
         /\ world' = WorldSnapshot_write_to_world(latest, world)]_vars

\* A Load of frame F after the saves of F and of F + K: the slot of F holds
\* the later snapshot, which differs from the one saved for F, and the world
\* is the one that snapshot gives.
HistoryAliased ==
    /\ pc = "exec"
    /\ cmd.type = "Load"
    /\ \E i, j \in DOMAIN saveLog :
          /\ i < j
          /\ saveLog[i].frame = cmd.frame
          /\ saveLog[j].frame = cmd.frame + Len(snapshots)
          /\ saveLog[i].snapshot # saveLog[j].snapshot
          /\ snapshots[(cmd.frame % Len(snapshots)) + 1] = saveLog[j].snapshot
          /\ world = WorldSnapshot_write_to_world(saveLog[j].snapshot, world)

\* C3: a Save whose frame differs from the frame counter panics, and leaves
\* every slot of the snapshot history as it was.
SaveMismatchFails ==
    [][(pc = "cmd" /\ cmd.type = "Save" /\ cmd.frame # frame) =>
         (pc' = "panic" /\ snapshots' = snapshots)]_vars

\* A Save of another frame than the frame counter has panicked, with a
\* sized snapshot history whose slot holds another state than the world's.
SaveMismatchPanicked ==
    /\ pc = "panic"
    /\ cmd.type = "Save"
    /\ cmd.frame # frame
    /\ snapshots # << >>
    /\ snapshots[save_pos(cmd.frame, Len(snapshots)) + 1] #
           WorldSnapshot_from_world(world)

\* C4: a Load of frame X sets the frame counter to X whatever it was, also
\* when X is smaller, and does not fail.
LoadSetsFrame ==
    [][(pc = "cmd" /\ cmd.type = "Load") =>
         (frame' = cmd.frame /\ pc' = "exec")]_vars

\* A Load of a frame smaller than the frame counter has been executed.
LoadedBackward ==
    /\ pc = "exec"
    /\ cmd.type = "Load"
    /\ cmd.frame < before
    /\ frame = cmd.frame

BiasDamping ==
    /\ fps_delta * 10 = UnbiasedDelta * (IF run_slow THEN 11 ELSE 10)
    /\ (pc = "idle" /\ gap = Second(update_frequency)) =>
          LET total == acc0 + gap
              biased == run_steps(total, (UnbiasedDelta * 11) \div 10)
              clear == run_steps(total, UnbiasedDelta) IN
          /\ steps = IF run_slow THEN biased ELSE clear
          /\ biased <= clear
          /\ gap > UnbiasedDelta * UnbiasedDelta => biased < clear

\* One second has been polled with the bias flag set, and fewer steps were
\* emitted than the same second emits with the flag clear.
BiasDamped ==
    /\ pc = "idle"
    /\ run_slow
    /\ gap = Second(update_frequency)
    /\ steps < run_steps(acc0 + gap, UnbiasedDelta)

\* C6 as stated: over one second of polling the steps with the bias flag
\* set are fewer than with it clear, whatever the update rate.
BiasDampingAlways ==
    /\ fps_delta * 10 = UnbiasedDelta * (IF run_slow THEN 11 ELSE 10)
    /\ (pc = "idle" /\ gap = Second(update_frequency)) =>
          run_steps(acc0 + gap, (UnbiasedDelta * 11) \div 10)
              < run_steps(acc0 + gap, UnbiasedDelta)

CommandOrdering ==
    /\ Len(done) <= Len(batch)
    /\ done = SubSeq(batch, 1, Len(done))
    /\ Len(done) + requests = Len(batch)
    /\ pc \in {"cmd", "advance", "advanced"} =>
          (done # << >> /\ cmd = done[Len(done)])
    /\ pc \in {"idle", "loop"} => done = batch

\* The second step of one poll has executed a list of two different
\* commands.
CommandsOrdered ==
    /\ pc = "loop"
    /\ steps = 2
    /\ Len(batch) = 2
    /\ batch[1] # batch[2]
    /\ done = batch

\* C9: the input resource is present exactly from the insertion by an
\* Advance to its removal by the same Advance, around the one run of the
\* schedule, and absent in every other state; an Advance runs the schedule
\* exactly once.
InputVisibility ==
    /\ inputs <=> pc \in {"advance", "advanced"}
    /\ pc = "advance" => (cmd.type = "Advance" /\ simRuns = 0)
    /\ pc = "advanced" => (cmd.type = "Advance" /\ simRuns = 1)
    /\ (pc = "exec" /\ cmd.type = "Advance") => simRuns = 1

\* An Advance has run the schedule once, the inputs still present.
InputsVisible == pc = "advanced" /\ inputs /\ simRuns = 1

\* C10: the frame counter changes only when a Load sets it to the loaded
\* frame, when an Advance increases it by one, and when a poll resets the
\* session; every other step (a Save, a skipped frame, a poll that emits no
\* step) leaves it as it is.
FrameTransitions ==
    [][frame' # frame =>
         \/ pc = "cmd" /\ cmd.type = "Load" /\ frame' = cmd.frame
         \/ pc = "advanced" /\ cmd.type = "Advance" /\ frame' = frame + 1
         \/ pc = "idle" /\ reset /\ frame' = 0]_vars

\* An Advance has increased the frame counter by one after a Save of the
\* frame left it as it was.
FrameAdvanced ==
    /\ pc = "exec"
    /\ cmd.type = "Advance"
    /\ frame = before + 1
    /\ snapshots # << >>
    /\ snapshots[save_pos(before, Len(snapshots)) + 1] # DefaultSnapshot

\* A step in which advance_frame was called and returned PredictionThreshold
\* or another error.
FailedStep ==
    /\ pc = "loop"
    /\ accumulator' # accumulator
    /\ \E i \in DOMAIN calls' : calls'[i].op \in {"PredictionThreshold", "Error"}

\* C11 (as the code has it): a step whose advance_frame fails executes no
\* request and leaves the frame counter, the simulation, the inputs and the
\* saved snapshots as they were; the step still takes its threshold from the
\* accumulator, an empty snapshot history is still sized (synctest,
\* peer-to-peer), and a peer-to-peer step still sets run_slow from
\* frames_ahead.
FailedAdvance ==
    [][FailedStep =>
         /\ pc' = "loop"
         /\ requests' = 0
         /\ frame' = frame
         /\ world' = world
         /\ inputs' = inputs
         /\ session' = session
         /\ cmd' = cmd
         /\ simRuns' = simRuns
         /\ accumulator' = accumulator - fps_delta
         /\ snapshots' =
                IF snapshots = << >> /\ session.type # "Spectator"
                THEN Defaults(session.max_prediction) ELSE snapshots
         /\ run_slow' =
                IF session.type = "P2P" THEN calls'[Len(calls')].arg > 0
                ELSE run_slow]_vars

\* A peer-to-peer step has failed with PredictionThreshold, and has set
\* run_slow.
AdvanceFailed ==
    /\ pc = "loop"
    /\ session.type = "P2P"
    /\ \E i \in DOMAIN calls : calls[i].op = "PredictionThreshold"
    /\ run_slow
    /\ snapshots # << >>

\* C11 as stated: such a step leaves the frame counter, the snapshot
\* history, the simulation and the rest of the stage as they were.
FailedAdvanceUntouched ==
    [][FailedStep =>
         /\ pc' = "loop"
         /\ requests' = 0
         /\ frame' = frame
         /\ world' = world
         /\ inputs' = inputs
         /\ cmd' = cmd
         /\ simRuns' = simRuns
         /\ snapshots' = snapshots
         /\ run_slow' = run_slow]_vars

TeardownReset ==
    [][(pc = "idle" /\ reset /\ pc' = "loop") =>
         /\ accumulator' = 0
         /\ ~run_slow'
         /\ fps_delta' = UnbiasedDelta
         /\ frame' = 0
         /\ snapshots' = << >>
         /\ ~reset']_vars

\* A reset has been processed after a session had advanced the simulation,
\* and a synctest session has been started since: no step of the poll has
\* run yet.
TornDown ==
    /\ pc = "loop"
    /\ ~reset
    /\ session.type = "SyncTest"
    /\ world # StageWorld
    /\ snapshots = << >>
    /\ frame = 0
    /\ accumulator = 0

\* C14 (as the code has it): after every poll made while no session is
\* active, the accumulator holds at most one step threshold (the time is
\* consumed in steps that run nothing, down to a rest that need not be
\* zero) and run_slow is clear.
IdleClock ==
    (pc = "idle" /\ session.type = "None" /\ ~reset) =>
       (accumulator <= UnbiasedDelta /\ ~run_slow)

\* A poll without a session has returned with a whole step threshold left
\* in the accumulator.
IdleClockRest ==
    /\ pc = "idle"
    /\ session.type = "None"
    /\ ~reset
    /\ ~run_slow
    /\ accumulator = UnbiasedDelta

\* C14 as stated: after every poll made while no session is active, the
\* accumulator is zero and run_slow is clear.
IdleClockZero ==
    (pc = "idle" /\ session.type = "None" /\ ~reset) =>
       (accumulator = 0 /\ ~run_slow)

\* A step of a peer-to-peer or spectator session that is not Running.
SynchronizingStep ==
    /\ pc = "loop"
    /\ accumulator' # accumulator
    /\ session.type \in {"P2P", "Spectator"}
    /\ session.state # "Running"

\* C15 (as the code has it): a step of a peer-to-peer or spectator session
\* that is not Running does not call advance_frame, executes no request and
\* leaves the frame counter, the simulation and the saved snapshots as they
\* were; a peer-to-peer step still sizes a snapshot history that is empty.
SynchronizingSkips ==
    [][SynchronizingStep =>
         /\ \A i \in DOMAIN calls' : calls'[i].op # "advance_frame"
         /\ pc' = "loop"
         /\ requests' = 0
         /\ frame' = frame
         /\ world' = world
         /\ inputs' = inputs
         /\ cmd' = cmd
         /\ simRuns' = simRuns
         /\ snapshots' =
                IF snapshots = << >> /\ session.type = "P2P"
                THEN Defaults(session.max_prediction) ELSE snapshots]_vars

\* A step of a synchronizing peer-to-peer session has been skipped, the
\* snapshot history sized by it.
SynchronizingSkipped ==
    /\ pc = "loop"
    /\ session.type = "P2P"
    /\ session.state = "Synchronizing"
    /\ calls # << >>
    /\ calls[Len(calls)].op = "frames_ahead"
    /\ \A i \in DOMAIN calls : calls[i].op # "advance_frame"
    /\ snapshots = Defaults(session.max_prediction)
    /\ frame = 0

\* C15 as stated: such a step leaves the frame counter, the contents of the
\* snapshot history and the simulation unchanged.
SynchronizingUntouched ==
    [][SynchronizingStep =>
         /\ \A i \in DOMAIN calls' : calls'[i].op # "advance_frame"
         /\ pc' = "loop"
         /\ requests' = 0
         /\ frame' = frame
         /\ world' = world
         /\ snapshots' = snapshots]_vars

\* A step of a peer-to-peer session.
P2pStep ==
    /\ pc = "loop"
    /\ accumulator' # accumulator
    /\ session.type = "P2P"

\* C16 (as the code has it): after each peer-to-peer step run_slow is
\* (frames_ahead > 0) as the session reported it in that step; the threshold
\* is chosen from run_slow when a poll begins and stays the same for every
\* step of that poll, so the value selects the threshold of the steps of
\* the next poll, not of a further step of the same poll.
BiasFeedback ==
    [][/\ P2pStep =>
            /\ calls'[Len(calls')].op = "frames_ahead"
            /\ run_slow' = (calls'[Len(calls')].arg > 0)
       /\ (pc = "loop" /\ accumulator' # accumulator) =>
            /\ fps_delta' = fps_delta
            /\ accumulator' = accumulator - fps_delta
       /\ (pc = "idle" /\ pc' = "loop") =>
            fps_delta' = IF run_slow /\ ~reset
                         THEN (UnbiasedDelta * 11) \div 10
                         ELSE UnbiasedDelta]_vars

\* A peer-to-peer step has set run_slow, and a further step of the same poll
\* is due under the unbiased threshold the poll began with.
BiasPending ==
    /\ pc = "loop"
    /\ session.type = "P2P"
    /\ calls # << >>
    /\ calls[Len(calls)] = Call("frames_ahead", 1)
    /\ run_slow
    /\ fps_delta = UnbiasedDelta
    /\ accumulator > fps_delta

\* C16 as stated: after each peer-to-peer step run_slow is (frames_ahead >
\* 0), and every step, also a further one of the same poll, takes the
\* threshold that the run_slow of that moment selects.
BiasFeedbackAtOnce ==
    [][/\ P2pStep =>
            /\ calls'[Len(calls')].op = "frames_ahead"
            /\ run_slow' = (calls'[Len(calls')].arg > 0)
       /\ (pc = "loop" /\ accumulator' # accumulator) =>
            accumulator' = accumulator -
                (IF run_slow THEN (UnbiasedDelta * 11) \div 10
                 ELSE UnbiasedDelta)]_vars

\* The positions of the calls named op in the calls c.
Ops(c, op) == {i \in DOMAIN c : c[i].op = op}

\* C17: in a step that calls advance_frame the input system has run exactly
\* once for each local player and the input was registered with the session
\* after it was sampled and before advance_frame; in a step that does not
\* advance because the session is not Running the input system has not run.
InputSampling ==
    [][(pc = "loop" /\ accumulator' # accumulator /\ session.type # "None") =>
         LET c == calls' IN
         IF Ops(c, "advance_frame") # {}
         THEN /\ \A i, j \in Ops(c, "input") : c[i].arg = c[j].arg => i = j
              /\ \A i \in Ops(c, "input") :
                    \E k \in Ops(c, "add_local_input") :
                       /\ c[k].arg = c[i].arg
                       /\ i < k
                       /\ \A a \in Ops(c, "advance_frame") : k < a
              /\ \A k \in Ops(c, "add_local_input") :
                    \E i \in Ops(c, "input") : c[i].arg = c[k].arg
         ELSE Ops(c, "input") = {}]_vars

\* C18: a poll with a peer-to-peer or a spectator session calls
\* poll_remote_clients before any step of that poll, also when the session is
\* synchronizing and whatever time has accumulated.
NetworkPolling ==
    [][(pc = "idle" /\ pc' = "loop"
            /\ session.type \in {"P2P", "Spectator"}) =>
         /\ calls' = << Call("poll_remote_clients", 0) >>
         /\ frame' = frame
         /\ accumulator' >= accumulator]_vars

\* A poll of a spectator session that is still synchronizing has called
\* poll_remote_clients and returned without a step.
PolledWithoutStep ==
    /\ pc = "idle"
    /\ session.type = "Spectator"
    /\ session.state = "Synchronizing"
    /\ calls = << Call("poll_remote_clients", 0) >>
    /\ accumulator = UnbiasedDelta
    /\ frame = 0

\* C19: after the restore of one state-kind from the slot's snapshot, every
\* live tracked entity holds a value of that kind exactly if the snapshot
\* holds one for its reference, and then the value is the snapshot's; the
\* other state-kind, the set of live entities and the untracked entity are
\* as before.
PerKindRestore ==
    [][\A k \in Kinds :
         (cmd'.type = k /\ saveLog # << >>) =>
            /\ \A r \in RB :
                  /\ IsSome(world'.tracked[r]) <=> IsSome(world.tracked[r])
                  /\ IsSome(world.tracked[r]) =>
                        /\ Unwrap(world'.tracked[r])[k] = snapshots[1].comps[k][r]
                        /\ \A o \in Kinds \ {k} :
                              Unwrap(world'.tracked[r])[o] =
                                 Unwrap(world.tracked[r])[o]
            /\ world'.untracked = world.untracked]_vars

\* C20: every pass of the step loop, whatever the session type and also
\* without a session, is made with more than the threshold of the poll
\* accumulated and takes that threshold, which is at least one unbiased
\* step, from the accumulator, so a poll makes finitely many steps; when
\* the poll returns the accumulator holds at most that threshold.
BoundedBacklog ==
    [][/\ (pc = "loop" /\ pc' # "idle") =>
            /\ accumulator > fps_delta
            /\ accumulator' = accumulator - fps_delta
            /\ fps_delta' = fps_delta
            /\ fps_delta >= UnbiasedDelta
       /\ (pc = "loop" /\ pc' = "idle") =>
            /\ accumulator' = accumulator
            /\ accumulator' <= fps_delta'
            /\ accumulator' >= 0]_vars

\* A poll of a running peer-to-peer session has made the first advance and
\* returned with a whole step threshold left in the accumulator.
BacklogConsumed ==
    /\ pc = "idle"
    /\ session.type = "P2P"
    /\ session.state = "Running"
    /\ frame = 1
    /\ accumulator = UnbiasedDelta
    /\ fps_delta = UnbiasedDelta
====
